---- MODULE Spec2Model ----
(***************************************************************************)
(* Model of astrofinance-auto's short-video generator                      *)
(* (src/generate_short.py): main -> get_content_for_sign -> create_short,  *)
(* and of the scripts around it: upload_youtube.py, cleanup.py, main.py    *)
(* and send_email.py.                                                      *)
(*                                                                         *)
(* A text is abstracted to what the timeline code reads of it: its         *)
(* character count (len(...), lines 379-381) and the number of lines       *)
(* textwrap produces for it (lines 302-305).  Wrapped lines are modelled   *)
(* as one-token strings <<i>>, a chunk string as the token sequence of its *)
(* lines joined by the newline token NL.                                   *)
(*                                                                         *)
(* Times are exact rationals [num, den] (the code uses Python floats; the  *)
(* only place where float rounding changes a result, the int() truncation  *)
(* of lines 385-386, is modelled by FloatTruncShare).                      *)
(*                                                                         *)
(* Specifications:                                                         *)
(*   Spec          the program as it stands: create_short stops at line    *)
(*                 361, whose get_australian_datetime is defined nowhere   *)
(*   SpecTimeline  the program with that function in scope: the whole of   *)
(*                 create_short and main's report                          *)
(*   SpecAlloc     the duration allocation alone (lines 371-391)           *)
(*   SpecChunks    create_text_chunks alone (lines 300-352)                *)
(*   SpecLoop      the looping of one media file alone (lines 421-425,     *)
(*                 515-522)                                                *)
(*   SpecRuns      two runs side by side, each with its own wall clock     *)
(*   SpecUpload    upload_youtube.py: upload of the newest video, cleanup  *)
(*   SpecCleanup   cleanup.py: the three cleanup functions and `all`       *)
(*   SpecShorts    main.py: duration and media of one short                *)
(*   SpecProviders main.py: get_free_ai_content and the fallback           *)
(*   SpecEmail     send_email.py: the report and the exit status           *)
(***************************************************************************)
EXTENDS Integers, Sequences, FiniteSets, TLC

----------------------------------------------------------------------------
(* Bounds of the model (not program constants).                            *)

\* character counts of the pipeline's texts are multiples of LenUnit
LenUnit == 35
MaxUnits == 2
\* SpecAlloc: character counts 0..MaxLen
MaxLen == 32
\* SpecChunks: wrapped line counts 0..MaxLines
MaxLines == 20
\* SpecLoop: media files of 0..MaxSourceSeconds seconds, in half seconds
MaxSourceSeconds == 61
\* SpecRuns: the runs fall on the days 1..MaxDay of one month
MaxDay == 2
\* videos of one sign, and files of one directory, on the disk
MaxFiles == 3
\* words of the text laid over a short of main.py
MaxWords == 150
\* addresses in SECONDARY_EMAILS
MaxSecondary == 2

----------------------------------------------------------------------------
(* Program constants of create_short.                                      *)

AVAILABLE_TIME == 45
HOROSCOPE_TIME == 16
WEALTH_TIME == 12
HEALTH_TIME == 12
SUBSCRIBE_DURATION == 5
TARGET_DURATION == 59
HEADING_Y == 100
TEXT_Y == 910
SIGN_Y == HEADING_Y + 60
DATE_Y == SIGN_Y + 130
HORO_HEADING_Y == HEADING_Y - 60
\* create_text_chunks
LINES_PER_CHUNK == 9
SINGLE_CHUNK_LINES == 8
TWO_CHUNK_LINES == 16
MIN_CHUNK_DURATION == 3

----------------------------------------------------------------------------
(* Exact rational arithmetic for clip times.                               *)

Rat(n, d) == [num |-> n, den |-> d]
RInt(n) == Rat(n, 1)
RAdd(a, b) ==
    IF a.den = b.den THEN Rat(a.num + b.num, a.den)
    ELSE Rat(a.num * b.den + b.num * a.den, a.den * b.den)
RLeq(a, b) == a.num * b.den <= b.num * a.den
RLt(a, b) == a.num * b.den < b.num * a.den
REq(a, b) == a.num * b.den = b.num * a.den
RMax(a, b) == IF RLeq(b, a) THEN a ELSE b

Max(a, b) == IF a >= b THEN a ELSE b
Min(a, b) == IF a <= b THEN a ELSE b

----------------------------------------------------------------------------
(* Texts.                                                                  *)

NL == 0
Sections == {"horoscope", "wealth", "health"}
NoText == [len |-> 0, lines |-> 0]

\* The texts main hands to create_short come out of clean_and_summarize
\* (lines 188-250): "" or words separated by one blank or newline.  Such a
\* text of L wrapped lines (1..35 characters each, width=35 at line 305) has
\* between 2L - 1 and 36L - 1 characters.
WRAP_WIDTH == 35
IsText(t) ==
    IF t.lines = 0 THEN t.len = 0
    ELSE 2 * t.lines - 1 <= t.len /\ t.len <= (WRAP_WIDTH + 1) * t.lines - 1

\* line counts around the thresholds of create_text_chunks
LineCounts ==
    {0, 1, SINGLE_CHUNK_LINES - 1, SINGLE_CHUNK_LINES, SINGLE_CHUNK_LINES + 1,
     SINGLE_CHUNK_LINES + 2, TWO_CHUNK_LINES, TWO_CHUNK_LINES + 1,
     2 * LINES_PER_CHUNK + 1, 2 * LINES_PER_CHUNK + 2}

Texts ==
    {t \in [len : {k * LenUnit : k \in 0..MaxUnits}, lines : LineCounts] :
        IsText(t)}

----------------------------------------------------------------------------
(* fetch_ai_content (lines 67-113) and the fallback strings of             *)
(* get_content_for_sign (lines 253-273).                                   *)

\* A value fetch_ai_content can return: None, or a string, which is known
\* by whether it is "" and by the text clean_and_summarize makes of it
\* (a non-empty string such as "OK." is cleaned to the empty text).
None == [kind |-> "None", empty |-> TRUE, cleaned |-> NoText]
EmptyStr == [kind |-> "str", empty |-> TRUE, cleaned |-> NoText]
Str(t) == [kind |-> "str", empty |-> FALSE, cleaned |-> t]
Strings == {EmptyStr} \cup {Str(t) : t \in Texts}

\* Python's `not x` for None and for strings
Falsy(x) == x.kind = "None" \/ x.empty

\* lines 188-191, 250: "" for a falsy argument, else the cleaned text
clean_and_summarize(x) == IF Falsy(x) THEN NoText ELSE x.cleaned

\* What one provider does with one request: requests.post raises (timeout,
\* connection error), the status is not 200, the body of a 200 is not of
\* the expected shape, or it carries a string (stripped, lines 91 and 109).
Responses ==
    [status : {"exception", "non200", "malformed"}, body : {None}]
    \cup [status : {"ok"}, body : Strings]

\* lines 71-113: Groq first, then HuggingFace, each only with its key set
\* and inside its own try/except; None when neither returned
fetch_ai_content(GROQ_API_KEY, HUGGINGFACE_API_KEY, groq, hf) ==
    IF GROQ_API_KEY /\ groq.status = "ok" THEN groq.body
    ELSE IF HUGGINGFACE_API_KEY /\ hf.status = "ok" THEN hf.body
    ELSE None

\* everything fetch_ai_content can return under the given keys
FetchResults(GROQ_API_KEY, HUGGINGFACE_API_KEY) ==
    {fetch_ai_content(GROQ_API_KEY, HUGGINGFACE_API_KEY, groq, hf) :
        groq \in Responses, hf \in Responses}

\* --sign: a sign of five letters and one of eleven
Signs == {"Aries", "Sagittarius"}

\* lines 258, 263, 268: the fixed strings, known by what
\* clean_and_summarize and textwrap.fill(width=35) make of them (the
\* horoscope one names the sign: 130 characters on 4 lines for Aries, 143
\* on 5 for Sagittarius)
fallback(section, sign) ==
    IF section = "horoscope" THEN
        IF sign = "Aries" THEN Str([len |-> 130, lines |-> 4])
        ELSE Str([len |-> 143, lines |-> 5])
    ELSE IF section = "wealth" THEN Str([len |-> 78, lines |-> 3])
    ELSE Str([len |-> 93, lines |-> 3])

\* the fetched value handed on as it is, None included
fetched_as_is(x, section, sign) == x

\* lines 257-258, 262-263, 267-268: `if not x: x = <fallback>`
fetched_or_fallback(x, section, sign) ==
    IF Falsy(x) THEN fallback(section, sign) ELSE x

----------------------------------------------------------------------------
(* create_text_chunks (lines 300-352).                                     *)

\* lines 302-305: the wrapped lines of a text, each a one-token string
wrapped_lines_of(text) == [i \in 1..text.lines |-> <<i>>]

\* "\n".join(lines)
RECURSIVE Join(_)
Join(ls) ==
    IF ls = <<>> THEN <<>>
    ELSE IF Len(ls) = 1 THEN ls[1]
    ELSE ls[1] \o <<NL>> \o Join(Tail(ls))

\* s.split('\n'): the pieces between newline tokens ("" splits to [""])
RECURSIVE Split(_)
Split(s) ==
    IF \A i \in DOMAIN s : s[i] # NL THEN <<s>>
    ELSE LET k == CHOOSE i \in DOMAIN s :
                     s[i] = NL /\ \A j \in 1..(i - 1) : s[j] # NL
         IN  <<SubSeq(s, 1, k - 1)>> \o Split(SubSeq(s, k + 1, Len(s)))

\* chunks_of with a slice that runs one line too far (i : i + 9 inclusive)
chunks_of_overlapping(wrapped_lines) ==
    LET total_lines == Len(wrapped_lines) IN
    IF total_lines <= SINGLE_CHUNK_LINES THEN <<Join(wrapped_lines)>>
    ELSE IF total_lines <= TWO_CHUNK_LINES THEN
        LET mid == total_lines \div 2 IN
        <<Join(SubSeq(wrapped_lines, 1, mid)),
          Join(SubSeq(wrapped_lines, mid + 1, total_lines))>>
    ELSE
        [k \in 1..((total_lines + LINES_PER_CHUNK - 1) \div LINES_PER_CHUNK) |->
            Join(SubSeq(wrapped_lines, (k - 1) * LINES_PER_CHUNK + 1,
                        Min(k * LINES_PER_CHUNK + 1, total_lines)))]

\* chunks_of with < in place of <= at both thresholds
chunks_of_strict(wrapped_lines) ==
    LET total_lines == Len(wrapped_lines) IN
    IF total_lines < SINGLE_CHUNK_LINES THEN <<Join(wrapped_lines)>>
    ELSE IF total_lines < TWO_CHUNK_LINES THEN
        LET mid == total_lines \div 2 IN
        <<Join(SubSeq(wrapped_lines, 1, mid)),
          Join(SubSeq(wrapped_lines, mid + 1, total_lines))>>
    ELSE
        [k \in 1..((total_lines + LINES_PER_CHUNK - 1) \div LINES_PER_CHUNK) |->
            Join(SubSeq(wrapped_lines, (k - 1) * LINES_PER_CHUNK + 1,
                        Min(k * LINES_PER_CHUNK, total_lines)))]

\* lines 307-319: the chunk strings
chunks_of(wrapped_lines) ==
    LET total_lines == Len(wrapped_lines) IN
    IF total_lines <= SINGLE_CHUNK_LINES THEN <<Join(wrapped_lines)>>
    ELSE IF total_lines <= TWO_CHUNK_LINES THEN
        LET mid == total_lines \div 2 IN
        <<Join(SubSeq(wrapped_lines, 1, mid)),
          Join(SubSeq(wrapped_lines, mid + 1, total_lines))>>
    ELSE
        [k \in 1..((total_lines + LINES_PER_CHUNK - 1) \div LINES_PER_CHUNK) |->
            Join(SubSeq(wrapped_lines, (k - 1) * LINES_PER_CHUNK + 1,
                        Min(k * LINES_PER_CHUNK, total_lines)))]

RECURSIVE SumSeq(_)
SumSeq(q) == IF q = <<>> THEN 0 ELSE Head(q) + SumSeq(Tail(q))

\* the proportional share without the 3-second minimum
chunk_duration_unfloored(lines_in_chunk, total_lines_all, total_duration) ==
    Rat(lines_in_chunk * total_duration, total_lines_all)

\* the minimum taken one second lower
chunk_duration_min_lowered(lines_in_chunk, total_lines_all, total_duration) ==
    RMax(RInt(MIN_CHUNK_DURATION - 1),
         Rat(lines_in_chunk * total_duration, total_lines_all))

\* line 339: max(3.0, (lines_in_chunk / total_lines_all) * total_duration)
chunk_duration_of(lines_in_chunk, total_lines_all, total_duration) ==
    RMax(RInt(MIN_CHUNK_DURATION),
         Rat(lines_in_chunk * total_duration, total_lines_all))

\* current_time never advanced: every chunk starts at 0
chunk_start_zero(i, chunk_line_counts, total_lines_all, total_duration) ==
    RInt(0)

\* lines 336-350: start of chunk i = sum of the durations of chunks 1..i-1
RECURSIVE chunk_start(_, _, _, _)
chunk_start(i, chunk_line_counts, total_lines_all, total_duration) ==
    IF i = 1 THEN RInt(0)
    ELSE RAdd(chunk_start(i - 1, chunk_line_counts, total_lines_all,
                          total_duration),
              chunk_duration_of(chunk_line_counts[i - 1], total_lines_all,
                                total_duration))

\* the text clips (chunk string, section-relative start, duration)
create_text_chunks(text, total_duration) ==
    LET chunks == chunks_of(wrapped_lines_of(text)) IN
    IF Len(chunks) = 1 THEN
        \* lines 323-331
        <<[text |-> chunks[1], start |-> RInt(0),
           duration |-> RInt(total_duration)]>>
    ELSE
        \* lines 333-350
        LET chunk_line_counts == [i \in DOMAIN chunks |-> Len(Split(chunks[i]))]
            total_lines_all == SumSeq(chunk_line_counts)
        IN  [i \in DOMAIN chunks |->
                [text |-> chunks[i],
                 start |-> chunk_start(i, chunk_line_counts, total_lines_all,
                                       total_duration),
                 duration |-> chunk_duration_of(chunk_line_counts[i],
                                                total_lines_all,
                                                total_duration)]]

----------------------------------------------------------------------------
(* Duration allocation of create_short (lines 379-391).                    *)

\* n / d rounded to the nearest integer (halves up)
RoundNearest(n, d) == (2 * n + d) \div (2 * d)

\* round((length / total) * budget)
RoundShare(length, total, budget) == RoundNearest(length * budget, total)

\* int((length / total) * budget) in IEEE-754 doubles: the exact floor,
\* except that 13/45 and 26/45 round below 13/45 and 26/45, so that the
\* product with 45 is 12.99.. and 25.99.. (checked for all totals < 4000;
\* no such case exists for a budget of 54)
FloatTruncShare(length, total, budget) ==
    LET exact == (length * budget) \div total IN
    IF budget = 45 /\ (45 * length = 13 * total \/ 45 * length = 26 * total)
    THEN exact - 1
    ELSE exact

\* all three sections proportional, none taking the remainder
section_times_proportional(horo_length, wealth_length, health_length, budget, floors) ==
    LET total_content_length == horo_length + wealth_length + health_length IN
    IF total_content_length > 0 THEN
        <<Max(floors[1], (horo_length * budget) \div total_content_length),
          Max(floors[2], (wealth_length * budget) \div total_content_length),
          Max(floors[3], (health_length * budget) \div total_content_length)>>
    ELSE floors

\* the horoscope share taken without its floor
section_times_unfloored_first(horo_length, wealth_length, health_length, budget, floors) ==
    LET total_content_length == horo_length + wealth_length + health_length IN
    IF total_content_length > 0 THEN
        LET horo == FloatTruncShare(horo_length, total_content_length, budget)
            wealth == Max(floors[2], FloatTruncShare(wealth_length,
                                       total_content_length, budget))
        IN  <<horo, wealth, Max(floors[3], budget - horo - wealth)>>
    ELSE floors

\* the last section given the bare remainder
section_times_last_unclamped(horo_length, wealth_length, health_length, budget, floors) ==
    LET total_content_length == horo_length + wealth_length + health_length IN
    IF total_content_length > 0 THEN
        LET horo == Max(floors[1], FloatTruncShare(horo_length,
                                       total_content_length, budget))
            wealth == Max(floors[2], FloatTruncShare(wealth_length,
                                       total_content_length, budget))
        IN  <<horo, wealth, budget - horo - wealth>>
    ELSE floors

\* empty texts sharing the budget equally
section_times_equal_split(horo_length, wealth_length, health_length, budget, floors) ==
    LET total_content_length == horo_length + wealth_length + health_length IN
    IF total_content_length > 0 THEN
        LET horo == Max(floors[1], FloatTruncShare(horo_length,
                                       total_content_length, budget))
            wealth == Max(floors[2], FloatTruncShare(wealth_length,
                                       total_content_length, budget))
        IN  <<horo, wealth, Max(floors[3], budget - horo - wealth)>>
    ELSE <<budget \div 3, budget \div 3, budget - 2 * (budget \div 3)>>

\* lines 384-391 with the budget (45) and the floors (16, 12, 12) as
\* parameters; the else branch assigns HOROSCOPE_TIME, WEALTH_TIME,
\* HEALTH_TIME, the same three numbers as the floors
section_times(horo_length, wealth_length, health_length, budget, floors) ==
    LET total_content_length == horo_length + wealth_length + health_length IN
    IF total_content_length > 0 THEN
        LET horo == Max(floors[1], FloatTruncShare(horo_length,
                                       total_content_length, budget))
            wealth == Max(floors[2], FloatTruncShare(wealth_length,
                                       total_content_length, budget))
        IN  <<horo, wealth, Max(floors[3], budget - horo - wealth)>>
    ELSE floors

Floors == <<HOROSCOPE_TIME, WEALTH_TIME, HEALTH_TIME>>

----------------------------------------------------------------------------
(* State.                                                                  *)

VARIABLES
    pc,             \* position in main / create_short
    content,        \* the dict returned by get_content_for_sign
    horo_time, wealth_time, health_time,
    bg_video_path,  \* result of get_day_of_week_background
    current_time,   \* create_short's running section start
    all_clips,      \* the timeline handed to CompositeVideoClip
    horo_chunks, wealth_chunks, health_chunks,
    final_duration, \* duration of final_video (0: not composed)
    video_path,     \* create_short's return value
    exit_status,    \* -1 while running
    fetched,        \* what fetch_ai_content returned for each text
    text, total_duration, text_clips,  \* a call of create_text_chunks alone
    source_clip, loops, trimmed_clip,  \* the looping of one media file alone
    clock, bg_files, run_result,       \* two runs side by side
    shorts_dir,         \* upload_youtube.py: the videos in videos/youtube_shorts
    upload_args,        \* its command line and the credentials of its environment
    upload_video_path,  \* video_path of its main
    youtube_url,        \* what upload_to_youtube returned
    removed_videos,     \* the videos os.remove has removed
    disk,               \* cleanup.py: the three directories it cleans
    disk_before,        \* the same when the script started
    cleanup_args,       \* its command line
    deleted_count,      \* what each cleanup function returned (-1: not called)
    attempted,          \* the paths handed to os.remove or shutil.rmtree
    main_words,         \* main.py: `words` of create_youtube_shorts
    short_duration,     \* its `duration`
    media_source,       \* the background video or music as loaded
    loops_needed,       \* its `loops_needed` (0: not looped)
    media_clip,         \* bg_video or bg_music after subclip
    api_keys,           \* main.py: which of the two API keys are set
    provider_answers,   \* what each provider answers when contacted
    contacted,          \* the providers contacted, in order
    ai_result,          \* what get_free_ai_content returned
    daily_horoscope,    \* where generate_daily_content took the horoscope
    email_env,          \* send_email.py: its command line and environment
    gmail_outcome,      \* what the Gmail API does with a mail to a recipient
    delivered,          \* the recipients the report was delivered to
    email_success       \* what send_email_gmail returned

vars ==
    <<pc, content, horo_time, wealth_time, health_time, bg_video_path,
      current_time, all_clips, horo_chunks, wealth_chunks, health_chunks,
      final_duration, video_path, exit_status, fetched, text,
      total_duration, text_clips, source_clip, loops, trimmed_clip, clock,
      bg_files, run_result, shorts_dir, upload_args, upload_video_path,
      youtube_url, removed_videos, disk, disk_before, cleanup_args,
      deleted_count, attempted, main_words, short_duration, media_source,
      loops_needed, media_clip, api_keys, provider_answers, contacted,
      ai_result, daily_horoscope, email_env, gmail_outcome, delivered,
      email_success>>

chunk_call_vars == <<text, total_duration, text_clips>>
loop_call_vars == <<source_clip, loops, trimmed_clip>>
run_vars == <<clock, bg_files, run_result>>
\* the state of generate_short.py but for pc and exit_status
short_vars ==
    <<content, horo_time, wealth_time, health_time, bg_video_path,
      current_time, all_clips, horo_chunks, wealth_chunks, health_chunks,
      final_duration, video_path, fetched, chunk_call_vars, loop_call_vars,
      run_vars>>
upload_vars ==
    <<shorts_dir, upload_args, upload_video_path, youtube_url, removed_videos>>
cleanup_vars == <<disk, disk_before, cleanup_args, deleted_count, attempted>>
shorts_vars ==
    <<main_words, short_duration, media_source, loops_needed, media_clip>>
provider_vars ==
    <<api_keys, provider_answers, contacted, ai_result, daily_horoscope>>
email_vars == <<email_env, gmail_outcome, delivered, email_success>>
\* the state of the scripts other than generate_short.py
script_vars ==
    <<upload_vars, cleanup_vars, shorts_vars, provider_vars, email_vars>>
\* the state of the scripts other than upload_youtube.py
but_upload_vars ==
    <<short_vars, cleanup_vars, shorts_vars, provider_vars, email_vars>>
\* the state of the scripts other than cleanup.py
but_cleanup_vars ==
    <<short_vars, upload_vars, shorts_vars, provider_vars, email_vars>>
\* the state of the scripts other than main.py
but_main_vars == <<short_vars, upload_vars, cleanup_vars, email_vars>>
\* the state of the scripts other than send_email.py
but_email_vars ==
    <<short_vars, upload_vars, cleanup_vars, shorts_vars, provider_vars>>

\* a clip on the timeline
Clip(kind, section, txt, pos, start, duration) ==
    [kind |-> kind, section |-> section, text |-> txt, pos |-> pos,
     start |-> start, duration |-> duration]

ClipEnd(c) == RAdd(c.start, c.duration)

\* lines 276-297 with set_position / set_start of the caller: a heading and
\* its underline, 100 px below
create_heading(section, y, start, duration) ==
    <<Clip("heading", section, <<>>, <<"center", y>>, start, RInt(duration)),
      Clip("underline", section, <<>>, <<"center", y + 100>>, start,
           RInt(duration))>>

\* chunks placed at their section-relative start, the section's own start
\* left out
place_chunks_section_relative(section, chunks, now) ==
    [i \in DOMAIN chunks |->
        Clip("body", section, chunks[i].text, <<"center", TEXT_Y>>,
             chunks[i].start, chunks[i].duration)]

\* lines 466-467: chunk.set_position(('center', TEXT_Y))
\*                     .set_start(current_time + chunk.start)
place_chunks(section, chunks, now) ==
    [i \in DOMAIN chunks |->
        Clip("body", section, chunks[i].text, <<"center", TEXT_Y>>,
             RAdd(RInt(now), chunks[i].start), chunks[i].duration)]

\* values of the variables a specification does not use
NoFetch == [s \in Sections |-> None]
NoMedia == [file |-> "none", exists |-> FALSE, duration |-> RInt(0)]
NoClip == [looped |-> RInt(0), duration |-> RInt(0)]
LoopIdle == source_clip = NoMedia /\ loops = 0 /\ trimmed_clip = NoClip
RunsIdle == clock = <<>> /\ bg_files = {} /\ run_result = <<>>
NoVideo == [sign |-> "None", ctime |-> 0]
NoArgs == [sign |-> "None", cleanup |-> FALSE, credentials |-> FALSE]
UploadIdle ==
    /\ shorts_dir = {} /\ upload_args = NoArgs /\ upload_video_path = NoVideo
    /\ youtube_url = "unset" /\ removed_videos = {}
Directories == {"youtube", "instagram", "temp"}
NoDir == [exists |-> FALSE, files |-> {}]
NotCalled == [d \in Directories |-> -1]
NoCleanupArgs ==
    [command |-> "None", dry_run |-> FALSE, youtube_older |-> 0,
     insta_older |-> 0]
CleanupIdle ==
    /\ disk = [d \in Directories |-> NoDir]
    /\ disk_before = disk
    /\ cleanup_args = NoCleanupArgs
    /\ deleted_count = NotCalled
    /\ attempted = {}
ShortsIdle ==
    /\ main_words = 0 /\ short_duration = RInt(0) /\ media_source = NoMedia
    /\ loops_needed = 0 /\ media_clip = NoClip
Unset == [kind |-> "unset", text |-> ""]
NoAnswer == [status |-> "none", form |-> "none", text |-> ""]
ProvidersIdle ==
    /\ api_keys = [huggingface |-> FALSE, groq |-> FALSE]
    /\ provider_answers =
          [p \in {"deepseek", "openai", "groq"} |-> NoAnswer]
    /\ contacted = <<>>
    /\ ai_result = Unset
    /\ daily_horoscope = "unset"
EmailIdle ==
    /\ email_env = [status |-> "none", credentials |-> FALSE, secondary |-> 0]
    /\ gmail_outcome = <<>>
    /\ delivered = {}
    /\ email_success = "unset"
ScriptsIdle ==
    UploadIdle /\ CleanupIdle /\ ShortsIdle /\ ProvidersIdle /\ EmailIdle
\* generate_short.py not run
ShortIdle ==
    /\ content = [s \in Sections |-> NoText]
    /\ fetched = NoFetch
    /\ horo_time = 0 /\ wealth_time = 0 /\ health_time = 0
    /\ bg_video_path = "unset"
    /\ current_time = 0
    /\ all_clips = <<>>
    /\ horo_chunks = <<>> /\ wealth_chunks = <<>> /\ health_chunks = <<>>
    /\ final_duration = 0
    /\ video_path = "unset"
    /\ text = NoText /\ total_duration = 0 /\ text_clips = <<>>
    /\ LoopIdle /\ RunsIdle

Init ==
    /\ pc = "main"
    /\ content = [s \in Sections |-> NoText]
    /\ horo_time = 0 /\ wealth_time = 0 /\ health_time = 0
    /\ bg_video_path = "unset"
    /\ current_time = 0
    /\ all_clips = <<>>
    /\ horo_chunks = <<>> /\ wealth_chunks = <<>> /\ health_chunks = <<>>
    /\ final_duration = 0
    /\ video_path = "unset"
    /\ exit_status = -1
    /\ ScriptsIdle
    /\ fetched = NoFetch
    /\ LoopIdle /\ RunsIdle
    /\ text = NoText /\ total_duration = 0 /\ text_clips = <<>>

----------------------------------------------------------------------------
(* main (lines 565-590) and create_short (lines 355-562), step by step.    *)

\* line 579 (get_content_for_sign, lines 253-273): each text fetched,
\* replaced by its fallback when falsy, then cleaned
get_content_for_sign ==
    /\ pc = "main"
    /\ \E sign \in Signs, GROQ_API_KEY \in BOOLEAN,
          HUGGINGFACE_API_KEY \in BOOLEAN :
          \E f \in [Sections ->
                       FetchResults(GROQ_API_KEY, HUGGINGFACE_API_KEY)] :
              /\ fetched' = f
              /\ content' =
                    [s \in Sections |->
                        clean_and_summarize(
                            fetched_or_fallback(f[s], s, sign))]
    /\ pc' = "date"
    /\ UNCHANGED <<horo_time, wealth_time, health_time, bg_video_path,
                   current_time, all_clips, horo_chunks, wealth_chunks,
                   health_chunks, final_duration, video_path, exit_status,
                   chunk_call_vars, loop_call_vars, run_vars, script_vars>>

\* lines 360-362: get_australian_datetime is defined nowhere in the module
\* (nor imported, lines 4-12), so the call raises NameError
create_short_date ==
    /\ pc = "date"
    /\ pc' = "raised"
    /\ UNCHANGED <<content, fetched, horo_time, wealth_time, health_time,
                   bg_video_path, current_time, all_clips, horo_chunks,
                   wealth_chunks, health_chunks, final_duration, video_path,
                   exit_status, chunk_call_vars, loop_call_vars, run_vars,
                   script_vars>>

\* lines 360-362 with a get_australian_datetime in scope: the call returns
\* and create_short goes on (the rest of create_short is studied this way)
create_short_date_returned ==
    /\ pc = "date"
    /\ pc' = "create_short"
    /\ UNCHANGED <<content, fetched, horo_time, wealth_time, health_time,
                   bg_video_path, current_time, all_clips, horo_chunks,
                   wealth_chunks, health_chunks, final_duration, video_path,
                   exit_status, chunk_call_vars, loop_call_vars, run_vars,
                   script_vars>>

\* lines 371-391
create_short_times ==
    /\ pc = "create_short"
    /\ LET t == section_times(content.horoscope.len, content.wealth.len,
                              content.health.len, AVAILABLE_TIME, Floors)
       IN  /\ horo_time' = t[1]
           /\ wealth_time' = t[2]
           /\ health_time' = t[3]
    /\ pc' = "background"
    /\ UNCHANGED <<content, fetched, bg_video_path, current_time, all_clips,
                   horo_chunks, wealth_chunks, health_chunks, final_duration,
                   video_path, exit_status, chunk_call_vars, loop_call_vars, run_vars,
                   script_vars>>

\* lines 393-397 (get_day_of_week_background, lines 37-64): today's
\* background, the default one, or None, and then create_short returns None
create_short_background ==
    /\ pc = "background"
    /\ \E path \in {"day_bg", "default_bg", "None"} :
          /\ bg_video_path' = path
          /\ IF path = "None"
             THEN video_path' = "None" /\ pc' = "report"
             ELSE video_path' = video_path /\ pc' = "load"
    /\ UNCHANGED <<content, fetched, horo_time, wealth_time, health_time, current_time,
                   all_clips, horo_chunks, wealth_chunks, health_chunks,
                   final_duration, exit_status, chunk_call_vars, loop_call_vars, run_vars,
                   script_vars>>

\* lines 399-425: the background is opened, scaled and looped; an
\* unreadable file (VideoFileClip raises) or a duration of 0 (line 422
\* divides by it) raises
create_short_load_background ==
    /\ pc = "load"
    /\ \E readable \in BOOLEAN :
          pc' = IF readable THEN "title" ELSE "raised"
    /\ UNCHANGED <<content, fetched, horo_time, wealth_time, health_time,
                   bg_video_path, current_time, all_clips, horo_chunks,
                   wealth_chunks, health_chunks, final_duration, video_path,
                   exit_status, chunk_call_vars, loop_call_vars, run_vars,
                   script_vars>>

MAIN_DURATION == horo_time + wealth_time + health_time

\* lines 419-453: title, its underline and the date, for MAIN_DURATION
create_short_title ==
    /\ pc = "title"
    /\ current_time' = 0
    /\ all_clips' =
          <<Clip("title", "title", <<>>, <<"center", SIGN_Y>>, RInt(0),
                 RInt(MAIN_DURATION)),
            Clip("underline", "title", <<>>, <<"center", SIGN_Y + 100>>,
                 RInt(0), RInt(MAIN_DURATION)),
            Clip("date", "title", <<>>, <<"center", DATE_Y>>, RInt(0),
                 RInt(MAIN_DURATION))>>
    /\ pc' = "horoscope"
    /\ UNCHANGED <<content, fetched, horo_time, wealth_time, health_time,
                   bg_video_path, horo_chunks, wealth_chunks, health_chunks,
                   final_duration, video_path, exit_status, chunk_call_vars, loop_call_vars, run_vars,
                   script_vars>>

\* lines 455-468
create_short_horoscope ==
    /\ pc = "horoscope"
    /\ horo_chunks' = create_text_chunks(content.horoscope, horo_time)
    /\ all_clips' =
          all_clips
          \o create_heading("horoscope", HORO_HEADING_Y, RInt(current_time),
                            horo_time)
          \o place_chunks("horoscope", horo_chunks', current_time)
    /\ current_time' = current_time + horo_time
    /\ pc' = "wealth"
    /\ UNCHANGED <<content, fetched, horo_time, wealth_time, health_time,
                   bg_video_path, wealth_chunks, health_chunks,
                   final_duration, video_path, exit_status, chunk_call_vars, loop_call_vars, run_vars,
                   script_vars>>

\* lines 470-483
create_short_wealth ==
    /\ pc = "wealth"
    /\ wealth_chunks' = create_text_chunks(content.wealth, wealth_time)
    /\ all_clips' =
          all_clips
          \o create_heading("wealth", HORO_HEADING_Y, RInt(current_time),
                            wealth_time)
          \o place_chunks("wealth", wealth_chunks', current_time)
    /\ current_time' = current_time + wealth_time
    /\ pc' = "health"
    /\ UNCHANGED <<content, fetched, horo_time, wealth_time, health_time,
                   bg_video_path, horo_chunks, health_chunks, final_duration,
                   video_path, exit_status, chunk_call_vars, loop_call_vars, run_vars,
                   script_vars>>

\* lines 485-498
create_short_health ==
    /\ pc = "health"
    /\ health_chunks' = create_text_chunks(content.health, health_time)
    /\ all_clips' =
          all_clips
          \o create_heading("health", HORO_HEADING_Y, RInt(current_time),
                            health_time)
          \o place_chunks("health", health_chunks', current_time)
    /\ current_time' = current_time + health_time
    /\ pc' = "subscribe"
    /\ UNCHANGED <<content, fetched, horo_time, wealth_time, health_time,
                   bg_video_path, horo_chunks, wealth_chunks, final_duration,
                   video_path, exit_status, chunk_call_vars, loop_call_vars, run_vars,
                   script_vars>>

\* lines 500-512: the subscribe clip, then the composite, set to
\* TARGET_DURATION
create_short_subscribe ==
    /\ pc = "subscribe"
    /\ all_clips' =
          Append(all_clips,
                 Clip("subscribe", "subscribe", <<>>, <<"center">>,
                      RInt(current_time), RInt(SUBSCRIBE_DURATION)))
    /\ final_duration' = TARGET_DURATION
    /\ pc' = "write"
    /\ UNCHANGED <<content, fetched, horo_time, wealth_time, health_time,
                   bg_video_path, current_time, horo_chunks, wealth_chunks,
                   health_chunks, video_path, exit_status, chunk_call_vars, loop_call_vars, run_vars,
                   script_vars>>

\* lines 524-562: write_videofile returns, and create_short returns the
\* output file
create_short_write ==
    /\ pc = "write"
    /\ video_path' = "output_file"
    /\ pc' = "report"
    /\ UNCHANGED <<content, fetched, horo_time, wealth_time, health_time,
                   bg_video_path, current_time, all_clips, horo_chunks,
                   wealth_chunks, health_chunks, final_duration, exit_status,
                   chunk_call_vars, loop_call_vars, run_vars,
                   script_vars>>

\* lines 514-539: the music block or write_videofile raises
create_short_write_raises ==
    /\ pc = "write"
    /\ pc' = "raised"
    /\ UNCHANGED <<content, fetched, horo_time, wealth_time, health_time,
                   bg_video_path, current_time, all_clips, horo_chunks,
                   wealth_chunks, health_chunks, final_duration, video_path,
                   exit_status, chunk_call_vars, loop_call_vars, run_vars,
                   script_vars>>

\* lines 586-590: an exception reaches main, which reports FAILED and
\* exits with status 1
main_failed ==
    /\ pc = "raised"
    /\ exit_status' = 1
    /\ pc' = "failed"
    /\ UNCHANGED <<content, fetched, horo_time, wealth_time, health_time,
                   bg_video_path, current_time, all_clips, horo_chunks,
                   wealth_chunks, health_chunks, final_duration, video_path,
                   chunk_call_vars, loop_call_vars, run_vars,
                   script_vars>>

\* lines 582-584: main prints SUCCESS with whatever create_short returned
main_success ==
    /\ pc = "report"
    /\ exit_status' = 0
    /\ pc' = "done"
    /\ UNCHANGED <<content, fetched, horo_time, wealth_time, health_time,
                   bg_video_path, current_time, all_clips, horo_chunks,
                   wealth_chunks, health_chunks, final_duration, video_path,
                   chunk_call_vars, loop_call_vars, run_vars,
                   script_vars>>

\* the program as it stands
Next ==
    \/ get_content_for_sign
    \/ create_short_date
    \/ main_failed

Spec == Init /\ [][Next]_vars

\* the program with a get_australian_datetime in scope
NextTimeline ==
    \/ get_content_for_sign
    \/ create_short_date_returned
    \/ create_short_times
    \/ create_short_background
    \/ create_short_load_background
    \/ create_short_title
    \/ create_short_horoscope
    \/ create_short_wealth
    \/ create_short_health
    \/ create_short_subscribe
    \/ create_short_write
    \/ create_short_write_raises
    \/ main_failed
    \/ main_success

SpecTimeline == Init /\ [][NextTimeline]_vars

----------------------------------------------------------------------------
(* The duration allocation alone: create_short entered with texts of any   *)
(* character counts 0..MaxLen, and with the lengths 145, 98, 87.           *)

ExampleLengths == <<145, 98, 87>>
\* one dominant section
DominantLengths == <<10, 10, 80>>

\* a text of n characters, wrapped to as few lines as n characters can take
TextOfLen(n) == [len |-> n, lines |-> (n + WRAP_WIDTH) \div (WRAP_WIDTH + 1)]

AllocContents ==
    {[horoscope |-> TextOfLen(h), wealth |-> TextOfLen(w),
      health |-> TextOfLen(e)] : h, w, e \in 0..MaxLen}
    \cup {[horoscope |-> TextOfLen(ExampleLengths[1]),
           wealth |-> TextOfLen(ExampleLengths[2]),
           health |-> TextOfLen(ExampleLengths[3])],
          [horoscope |-> TextOfLen(DominantLengths[1]),
           wealth |-> TextOfLen(DominantLengths[2]),
           health |-> TextOfLen(DominantLengths[3])]}

InitAlloc ==
    /\ pc = "create_short"
    /\ content \in AllocContents
    /\ horo_time = 0 /\ wealth_time = 0 /\ health_time = 0
    /\ bg_video_path = "unset"
    /\ current_time = 0
    /\ all_clips = <<>>
    /\ horo_chunks = <<>> /\ wealth_chunks = <<>> /\ health_chunks = <<>>
    /\ final_duration = 0
    /\ video_path = "unset"
    /\ exit_status = -1
    /\ ScriptsIdle
    /\ fetched = [s \in Sections |-> Str(content[s])]
    /\ LoopIdle /\ RunsIdle
    /\ text = NoText /\ total_duration = 0 /\ text_clips = <<>>

NextAlloc == create_short_times

SpecAlloc == InitAlloc /\ [][NextAlloc]_vars

----------------------------------------------------------------------------
(* create_text_chunks alone: any text of 0..MaxLines wrapped lines, any    *)
(* section duration the allocation can produce (12..45).                   *)

ChunkTexts ==
    {t \in [len : {2 * l - 1 : l \in 1..MaxLines} \cup {0, 3 * MaxLines},
            lines : 0..MaxLines] : IsText(t)}

SectionDurations == HEALTH_TIME..AVAILABLE_TIME

InitChunks ==
    /\ pc = "create_text_chunks"
    /\ text \in ChunkTexts
    /\ total_duration \in SectionDurations
    /\ text_clips = <<>>
    /\ content = [s \in Sections |-> NoText]
    /\ horo_time = 0 /\ wealth_time = 0 /\ health_time = 0
    /\ bg_video_path = "unset"
    /\ current_time = 0
    /\ all_clips = <<>>
    /\ horo_chunks = <<>> /\ wealth_chunks = <<>> /\ health_chunks = <<>>
    /\ final_duration = 0
    /\ video_path = "unset"
    /\ exit_status = -1
    /\ ScriptsIdle
    /\ fetched = NoFetch
    /\ LoopIdle /\ RunsIdle

\* lines 300-352: one call
create_text_chunks_call ==
    /\ pc = "create_text_chunks"
    /\ text_clips' = create_text_chunks(text, total_duration)
    /\ pc' = "chunks_returned"
    /\ UNCHANGED <<content, fetched, horo_time, wealth_time, health_time,
                   bg_video_path, current_time, all_clips, horo_chunks,
                   wealth_chunks, health_chunks, final_duration, video_path,
                   exit_status, text, total_duration, loop_call_vars,
                   run_vars,
                   script_vars>>

NextChunks == create_text_chunks_call

SpecChunks == InitChunks /\ [][NextChunks]_vars

----------------------------------------------------------------------------
(* The looping of one media file alone: the background video (lines        *)
(* 421-425) or the background music (lines 515-522), of any duration of    *)
(* 0..MaxSourceSeconds seconds in steps of half a second.                  *)

\* a ceiling where the code takes the integer part and adds one
loops_ceiling(duration) ==
    (TARGET_DURATION * duration.den + duration.num - 1) \div duration.num

\* lines 422, 518: int(TARGET_DURATION / duration) + 1 (the quotient of 59
\* and a multiple of half a second lies an integer or at least 1/123 from
\* one, so the double's integer part is the exact one)
loops_of(duration) == (TARGET_DURATION * duration.den) \div duration.num + 1

\* clip.loop(n=loops): the material of n copies
loop(duration, n) == Rat(n * duration.num, duration.den)

\* clip.subclip(0, t_end): the clip ends at t_end; `looped` keeps how much
\* material there is to show
subclip(material, t_end) == [looped |-> material, duration |-> RInt(t_end)]

SourceClips ==
    {[file |-> f, exists |-> TRUE, duration |-> Rat(k, 2)] :
        f \in {"background_video", "background_music"},
        k \in 0..(2 * MaxSourceSeconds)}
    \cup {[file |-> "background_music", exists |-> FALSE,
           duration |-> RInt(0)]}

InitLoop ==
    /\ pc = "loop"
    /\ source_clip \in SourceClips
    /\ loops = 0
    /\ trimmed_clip = NoClip
    /\ content = [s \in Sections |-> NoText]
    /\ fetched = NoFetch
    /\ horo_time = 0 /\ wealth_time = 0 /\ health_time = 0
    /\ bg_video_path = "unset"
    /\ current_time = 0
    /\ all_clips = <<>>
    /\ horo_chunks = <<>> /\ wealth_chunks = <<>> /\ health_chunks = <<>>
    /\ final_duration = 0
    /\ video_path = "unset"
    /\ exit_status = -1
    /\ ScriptsIdle
    /\ text = NoText /\ total_duration = 0 /\ text_clips = <<>>
    /\ RunsIdle

\* lines 421-425: bg_original shorter than TARGET_DURATION is looped, then
\* cut at TARGET_DURATION; a duration of 0 makes line 422 divide by zero
create_short_loop_background ==
    /\ pc = "loop"
    /\ source_clip.file = "background_video"
    /\ LET duration == source_clip.duration IN
       IF RLt(duration, RInt(TARGET_DURATION)) THEN
           IF duration.num = 0 THEN
               /\ pc' = "raised"
               /\ UNCHANGED <<loops, trimmed_clip>>
           ELSE
               /\ loops' = loops_of(duration)
               /\ trimmed_clip' =
                     subclip(loop(duration, loops'), TARGET_DURATION)
               /\ pc' = "looped"
       ELSE
           /\ loops' = 1
           /\ trimmed_clip' = subclip(duration, TARGET_DURATION)
           /\ pc' = "looped"
    /\ UNCHANGED <<content, fetched, horo_time, wealth_time, health_time,
                   bg_video_path, current_time, all_clips, horo_chunks,
                   wealth_chunks, health_chunks, final_duration, video_path,
                   exit_status, chunk_call_vars, source_clip, run_vars,
                   script_vars>>

\* lines 515-522: the same for the music, when its file exists.  music is
\* an AudioFileClip; moviepy.editor (line 11) makes loop a method of video
\* clips, and whether the installed moviepy has it on audio clips is not
\* fixed by the repository: line 519 returns the looped clip or raises
\* AttributeError.
create_short_loop_music ==
    /\ pc = "loop"
    /\ source_clip.file = "background_music"
    /\ LET duration == source_clip.duration IN
       IF ~source_clip.exists THEN
           /\ pc' = "no_music"
           /\ UNCHANGED <<loops, trimmed_clip>>
       ELSE IF RLt(duration, RInt(TARGET_DURATION)) THEN
           IF duration.num = 0 THEN
               /\ pc' = "raised"
               /\ UNCHANGED <<loops, trimmed_clip>>
           ELSE
               /\ loops' = loops_of(duration)
               /\ \/ /\ trimmed_clip' =
                           subclip(loop(duration, loops'), TARGET_DURATION)
                     /\ pc' = "looped"
                  \/ /\ trimmed_clip' = trimmed_clip
                     /\ pc' = "raised"
       ELSE
           /\ loops' = 1
           /\ trimmed_clip' = subclip(duration, TARGET_DURATION)
           /\ pc' = "looped"
    /\ UNCHANGED <<content, fetched, horo_time, wealth_time, health_time,
                   bg_video_path, current_time, all_clips, horo_chunks,
                   wealth_chunks, health_chunks, final_duration, video_path,
                   exit_status, chunk_call_vars, source_clip, run_vars,
                   script_vars>>

NextLoop == create_short_loop_background \/ create_short_loop_music

SpecLoop == InitLoop /\ [][NextLoop]_vars

----------------------------------------------------------------------------
(* Two runs of create_short side by side, on the same texts and the same   *)
(* files, each at its own time: what a run takes from the wall clock.      *)

Runs == {1, 2}

\* line 39
days ==
    <<"Monday", "Tuesday", "Wednesday", "Thursday", "Friday", "Saturday",
      "Sunday">>

\* datetime.now(): a date of one month and its weekday index (0 = Monday)
Clocks ==
    [date : [year : {2026}, month : {11}, day : 1..MaxDay], weekday : 0..6]

\* lines 37-64; a day's name stands for the file "<day>_bg.mp4",
\* "default_bg" for VIDEO_CONFIG['background_video']
get_day_of_week_background(today_index, files) ==
    LET bg_filename == days[today_index + 1] IN
    IF bg_filename \in files THEN bg_filename
    ELSE IF "default_bg" \in files THEN "default_bg"
    ELSE "None"

\* line 362: strftime("%d %b %Y")
aus_date_display(date) == <<date.day, date.month, date.year>>

\* lines 447-453
date_clip_of(display, duration) ==
    Clip("date", "title", display, <<"center", DATE_Y>>, RInt(0),
         RInt(duration))

AllDayFiles == {days[i] : i \in DOMAIN days}

BgFileSets ==
    {{}, {"default_bg"}, {"Monday", "default_bg"}, AllDayFiles,
     AllDayFiles \cup {"default_bg"}}

NotRun ==
    [done |-> FALSE, bg_video_path |-> "unset",
     date_clip |-> date_clip_of(<<>>, 0)]

InitRuns ==
    /\ pc = "runs"
    /\ content \in
          {[s \in Sections |-> NoText],
           [horoscope |-> TextOfLen(ExampleLengths[1]),
            wealth |-> TextOfLen(ExampleLengths[2]),
            health |-> TextOfLen(ExampleLengths[3])],
           [horoscope |-> TextOfLen(DominantLengths[1]),
            wealth |-> TextOfLen(DominantLengths[2]),
            health |-> TextOfLen(DominantLengths[3])]}
    /\ clock \in [Runs -> Clocks]
    /\ bg_files \in BgFileSets
    /\ run_result = [r \in Runs |-> NotRun]
    /\ fetched = [s \in Sections |-> Str(content[s])]
    /\ horo_time = 0 /\ wealth_time = 0 /\ health_time = 0
    /\ bg_video_path = "unset"
    /\ current_time = 0
    /\ all_clips = <<>>
    /\ horo_chunks = <<>> /\ wealth_chunks = <<>> /\ health_chunks = <<>>
    /\ final_duration = 0
    /\ video_path = "unset"
    /\ exit_status = -1
    /\ ScriptsIdle
    /\ text = NoText /\ total_duration = 0 /\ text_clips = <<>>
    /\ LoopIdle

\* run r of create_short, with a get_australian_datetime in scope: the
\* background it picks (line 393) and the date clip it builds (lines
\* 361-362, 447-453, for MAIN_DURATION of line 419)
create_short_run(r) ==
    /\ pc = "runs"
    /\ ~run_result[r].done
    /\ LET t == section_times(content.horoscope.len, content.wealth.len,
                              content.health.len, AVAILABLE_TIME, Floors)
       IN  run_result' =
              [run_result EXCEPT ![r] =
                  [done |-> TRUE,
                   bg_video_path |->
                       get_day_of_week_background(clock[r].weekday, bg_files),
                   date_clip |->
                       date_clip_of(aus_date_display(clock[r].date),
                                    t[1] + t[2] + t[3])]]
    /\ UNCHANGED <<pc, content, fetched, horo_time, wealth_time, health_time,
                   bg_video_path, current_time, all_clips, horo_chunks,
                   wealth_chunks, health_chunks, final_duration, video_path,
                   exit_status, chunk_call_vars, loop_call_vars, clock,
                   bg_files,
                   script_vars>>

NextRuns == \E r \in Runs : create_short_run(r)

SpecRuns == InitRuns /\ [][NextRuns]_vars

----------------------------------------------------------------------------
(* Notions the claims use.                                                 *)

\* the timeline is complete (line 512 has run)
Composed == final_duration = TARGET_DURATION

SectionStart(s) ==
    IF s = "horoscope" THEN 0
    ELSE IF s = "wealth" THEN horo_time
    ELSE horo_time + wealth_time

SectionTime(s) ==
    IF s = "horoscope" THEN horo_time
    ELSE IF s = "wealth" THEN wealth_time
    ELSE health_time

RECURSIVE RSum(_)
RSum(q) == IF q = <<>> THEN RInt(0) ELSE RAdd(Head(q), RSum(Tail(q)))

Durations(clips) == [i \in DOMAIN clips |-> clips[i].duration]

\* display intervals [start, start + duration) of two clips do not meet
Disjoint(a, b) == RLeq(ClipEnd(a), b.start) \/ RLeq(ClipEnd(b), a.start)

\* the section's heading is on the timeline, and with it its chunks
SectionComposed(s) ==
    \E i \in DOMAIN all_clips :
        all_clips[i].kind = "heading" /\ all_clips[i].section = s

SectionChunks(s) ==
    IF s = "horoscope" THEN horo_chunks
    ELSE IF s = "wealth" THEN wealth_chunks
    ELSE health_chunks

\* a body clip that shows nothing
Blank(c) == c.kind = "body" /\ c.text = <<>>

----------------------------------------------------------------------------
(* Claims on the timeline of create_short (specification SpecTimeline).    *)

\* C1: once the timeline is composed, horo_time + wealth_time + health_time
\* + SUBSCRIBE_DURATION equals TARGET_DURATION, and the last element (the
\* subscribe clip) ends exactly at TARGET_DURATION.
C1_TotalIsTarget ==
    Composed =>
        /\ horo_time + wealth_time + health_time + SUBSCRIBE_DURATION
               = TARGET_DURATION
        /\ REq(ClipEnd(all_clips[Len(all_clips)]), RInt(TARGET_DURATION))

\* C3: no element of the timeline ends after TARGET_DURATION.
C3_ClipsWithinTarget ==
    \A i \in DOMAIN all_clips :
        RLeq(ClipEnd(all_clips[i]), RInt(TARGET_DURATION))

\* C4: two elements at the same screen position are never displayed at the
\* same time.
C4_SameLayerDisjoint ==
    \A i, j \in DOMAIN all_clips :
        (/\ i < j
         /\ all_clips[i].pos = all_clips[j].pos
         /\ ~Blank(all_clips[i]) /\ ~Blank(all_clips[j]))
            => Disjoint(all_clips[i], all_clips[j])

\* C5: the body chunks of a section end no later than the section's start
\* plus its allotted duration (an overflowing last chunk is shortened), and
\* every section starts at the sum of the durations allotted before it.
C5_OverflowTruncated ==
    \A i \in DOMAIN all_clips :
        LET c == all_clips[i] IN
        /\ c.kind = "body" =>
              RLeq(ClipEnd(c),
                   RInt(SectionStart(c.section) + SectionTime(c.section)))
        /\ c.kind = "heading" => REq(c.start, RInt(SectionStart(c.section)))

\* C9: a section whose text has no wrapped line yields no chunk and puts no
\* body element of positive duration on the timeline.
C9_EmptySectionNoChunk ==
    \A s \in Sections :
        (content[s].lines = 0 /\ SectionComposed(s)) =>
            /\ SectionChunks(s) = <<>>
            /\ \A i \in DOMAIN all_clips :
                  (all_clips[i].kind = "body" /\ all_clips[i].section = s)
                      => ~RLt(RInt(0), all_clips[i].duration)

----------------------------------------------------------------------------
(* Claims on the duration allocation (specification SpecAlloc).            *)

Allocated == pc = "background"
TotalLength == content.horoscope.len + content.wealth.len + content.health.len
SumOfTimes == horo_time + wealth_time + health_time

\* C2 as claimed: the three section durations sum to AVAILABLE_TIME for
\* every combination of character counts.
C2_SumIsBudget == Allocated => SumOfTimes = AVAILABLE_TIME

\* C2 as amended: with some text non-empty the sum is AVAILABLE_TIME exactly
\* when the first two durations leave at least the health floor, and
\* otherwise exceeds it by the shortfall (the last section is clamped to
\* its floor and nothing is rebalanced); with all texts empty the sum is
\* 16 + 12 + 12.
C2_SumIsBudgetUnlessClamped ==
    Allocated =>
        /\ (TotalLength > 0 /\ horo_time + wealth_time <= AVAILABLE_TIME - HEALTH_TIME)
              => SumOfTimes = AVAILABLE_TIME
        /\ (TotalLength > 0 /\ horo_time + wealth_time > AVAILABLE_TIME - HEALTH_TIME)
              => /\ SumOfTimes = horo_time + wealth_time + HEALTH_TIME
                 /\ SumOfTimes > AVAILABLE_TIME
        /\ TotalLength = 0
              => SumOfTimes = HOROSCOPE_TIME + WEALTH_TIME + HEALTH_TIME

\* one section dominates: the sum overruns the budget
C2_Witness ==
    /\ Allocated
    /\ content.wealth.len > 2 * (content.horoscope.len + content.health.len)
    /\ content.horoscope.len > 0
    /\ SumOfTimes > AVAILABLE_TIME

\* the worked example of the claim: budget 54, floors 15, 12, 12
ExampleConfig == [budget |-> 54, floors |-> <<15, 12, 12>>]

IsExample ==
    <<content.horoscope.len, content.wealth.len, content.health.len>>
        = ExampleLengths

ExampleTimes ==
    section_times(ExampleLengths[1], ExampleLengths[2], ExampleLengths[3],
                  ExampleConfig.budget, ExampleConfig.floors)

\* time is the floor, or an integer nearest to the proportional share of
\* length (either neighbour at a tie)
RoundedShare(time, length, floor) ==
    \E r \in 0..AVAILABLE_TIME :
        /\ 2 * (r * TotalLength - AVAILABLE_TIME * length) <= TotalLength
        /\ 2 * (AVAILABLE_TIME * length - r * TotalLength) <= TotalLength
        /\ time = Max(floor, r)

FloatShort(length) ==
    \/ AVAILABLE_TIME * length = 13 * TotalLength
    \/ AVAILABLE_TIME * length = 26 * TotalLength

\* time is the floor, or the proportional share of length cut to a whole
\* number of seconds
TruncatedShare(time, length, floor) ==
    /\ time >= floor
    /\ IF FloatShort(length)
       THEN time * TotalLength = Max(floor * TotalLength,
                                     AVAILABLE_TIME * length - TotalLength)
       ELSE /\ time > floor =>
                  /\ time * TotalLength <= AVAILABLE_TIME * length
                  /\ AVAILABLE_TIME * length < (time + 1) * TotalLength
            /\ time = floor =>
                  AVAILABLE_TIME * length < (floor + 1) * TotalLength

----------------------------------------------------------------------------
(* Claims on create_text_chunks (specification SpecChunks).                *)

Returned == pc = "chunks_returned"

\* the wrapped lines a chunk string holds
ChunkLines(chunk) == SelectSeq(Split(chunk), LAMBDA l : l # <<>>)

RECURSIVE Concat(_)
Concat(qs) == IF qs = <<>> THEN <<>> ELSE Head(qs) \o Concat(Tail(qs))

ClipLines == [i \in DOMAIN text_clips |-> ChunkLines(text_clips[i].text)]
ClipSizes == [i \in DOMAIN text_clips |-> Len(ClipLines[i])]

SumOfChunkDurations == RSum(Durations(text_clips))

\* chunk i's proportional share (size / L) * total_duration is below the
\* 3-second minimum
ShareBelowMinimum(i) ==
    ClipSizes[i] * total_duration < MIN_CHUNK_DURATION * text.lines

\* C6 as claimed: for every line count L >= 1 and section duration, the
\* durations of the chunks sum to the section duration.
C6_ChunkDurationsSumToSection ==
    (Returned /\ text.lines >= 1) =>
        REq(SumOfChunkDurations, RInt(total_duration))

\* C6 as amended: the chunk durations sum to at least the section duration;
\* to exactly the section duration when no chunk's proportional share is
\* below the 3-second minimum (always so for L <= 16), and to more when one
\* is.
C6_ChunkDurationsCoverSection ==
    (Returned /\ text.lines >= 1) =>
        /\ RLeq(RInt(total_duration), SumOfChunkDurations)
        /\ (\A i \in DOMAIN text_clips : ~ShareBelowMinimum(i))
              => REq(SumOfChunkDurations, RInt(total_duration))
        /\ text.lines <= TWO_CHUNK_LINES
              => REq(SumOfChunkDurations, RInt(total_duration))
        /\ (Len(text_clips) > 1 /\ \E i \in DOMAIN text_clips : ShareBelowMinimum(i))
              => RLt(RInt(total_duration), SumOfChunkDurations)

\* 19 lines: the one-line last chunk is raised to 3 seconds
C6_Witness ==
    /\ Returned
    /\ text.lines = 2 * LINES_PER_CHUNK + 1
    /\ text_clips[3].duration = RInt(MIN_CHUNK_DURATION)
    /\ RLt(RInt(total_duration), SumOfChunkDurations)

\* C7: the chunks, in order, hold exactly the wrapped lines, in order.
C7_ChunksCoverLines ==
    (Returned /\ text.lines >= 1) =>
        Concat(ClipLines) = wrapped_lines_of(text)

\* more than 16 lines: three chunks of at most nine lines
C7_Witness ==
    /\ Returned
    /\ text.lines > TWO_CHUNK_LINES
    /\ Len(text_clips) = 3
    /\ Concat(ClipLines) = wrapped_lines_of(text)

\* C8: the chunk sizes depend on the line count L only: one chunk of L
\* lines for L <= 8; floor(L/2) and L - floor(L/2) for 8 < L <= 16;
\* ceil(L/9) chunks of 9 lines, the last of 1..9 lines, for L > 16.
C8_ChunkSizes ==
    Returned =>
        LET L == text.lines
            n == Len(text_clips)
        IN  /\ L <= 8 => ClipSizes = <<L>>
            /\ (8 < L /\ L <= 16) =>
                  /\ ClipSizes = <<L \div 2, L - (L \div 2)>>
                  /\ ClipSizes[1] <= ClipSizes[2]
            /\ L > 16 =>
                  /\ 9 * (n - 1) < L /\ L <= 9 * n
                  /\ \A i \in 1..(n - 1) : ClipSizes[i] = 9
                  /\ ClipSizes[n] \in 1..9
                  /\ ClipSizes[n] = L - 9 * (n - 1)
            /\ L = 7 => ClipSizes = <<7>>
            /\ L = 10 => ClipSizes = <<5, 5>>
            /\ L = 20 => ClipSizes = <<9, 9, 2>>

C8_Witness ==
    /\ Returned
    /\ text.lines = 20
    /\ ClipSizes = <<9, 9, 2>>


----------------------------------------------------------------------------
(* Further claims on the duration allocation (specification SpecAlloc).    *)

Lengths == <<content.horoscope.len, content.wealth.len, content.health.len>>
Times == <<horo_time, wealth_time, health_time>>
Remainder == AVAILABLE_TIME - horo_time - wealth_time

\* C11: every allotted section duration is at least the section's floor
\* (16, 12, 12), whatever the character counts; and the same rule with
\* floors 15, 12, 12 and budget 54 gives 15, 12, 27 for the character counts
\* 10, 10, 80.
C11_TimesAtLeastFloors ==
    Allocated =>
        /\ horo_time >= HOROSCOPE_TIME
        /\ wealth_time >= WEALTH_TIME
        /\ health_time >= HEALTH_TIME
        /\ Lengths = DominantLengths =>
              section_times(Lengths[1], Lengths[2], Lengths[3],
                            ExampleConfig.budget, ExampleConfig.floors)
                  = <<15, 12, 27>>

\* 10, 10, 80 characters: the shares 4 and 4 are lifted to 16 and 12
C11_Witness ==
    /\ Allocated
    /\ Lengths = DominantLengths
    /\ Times = <<16, 12, 17>>

----------------------------------------------------------------------------
(* Further claim on create_text_chunks (specification SpecChunks).         *)

\* C20: a text of at most 8 wrapped lines yields one chunk, which lasts the
\* whole section duration; with two or more chunks, each lasts the larger
\* of 3 seconds and (its line count / L) * section duration; so for every
\* section duration from the smallest floor up, every chunk lasts at least
\* 3 seconds.
C20_ChunkDurationRule ==
    Returned =>
        /\ text.lines <= SINGLE_CHUNK_LINES =>
              /\ Len(text_clips) = 1
              /\ REq(text_clips[1].duration, RInt(total_duration))
        /\ text.lines > SINGLE_CHUNK_LINES => Len(text_clips) >= 2
        /\ Len(text_clips) >= 2 =>
              \A i \in DOMAIN text_clips :
                  REq(text_clips[i].duration,
                      RMax(RInt(MIN_CHUNK_DURATION),
                           Rat(ClipSizes[i] * total_duration, text.lines)))
        /\ \A i \in DOMAIN text_clips :
              RLeq(RInt(MIN_CHUNK_DURATION), text_clips[i].duration)

\* 20 lines in 12 seconds: the last chunk's two lines would get 1.2
\* seconds and are shown for 3, the nine lines before it for 5.4
C20_Witness ==
    /\ Returned
    /\ text.lines = 2 * LINES_PER_CHUNK + 2
    /\ total_duration = HEALTH_TIME
    /\ Len(text_clips) = 3
    /\ REq(text_clips[3].duration, RInt(MIN_CHUNK_DURATION))
    /\ REq(text_clips[2].duration, Rat(27, 5))


----------------------------------------------------------------------------
(* Claims on the looping of the media (specification SpecLoop).            *)

\* line 422 or 518 has run for a file of positive duration
LoopsComputed ==
    /\ pc \in {"looped", "raised"}
    /\ source_clip.duration.num > 0

SourceShorter == RLt(source_clip.duration, RInt(TARGET_DURATION))

\* the source duration divides TARGET_DURATION exactly
SourceDivides ==
    \E n \in 1..(2 * TARGET_DURATION) :
        REq(loop(source_clip.duration, n), RInt(TARGET_DURATION))

\* c = max(1, ceil(TARGET_DURATION / source duration))
IsCeiling(c) ==
    /\ c >= 1
    /\ RLeq(RInt(TARGET_DURATION), loop(source_clip.duration, c))
    /\ c > 1 => RLt(loop(source_clip.duration, c - 1), RInt(TARGET_DURATION))

C15_TrimmedLastsTarget ==
    (/\ pc # "loop"
     /\ source_clip.exists
     /\ source_clip.duration.num > 0) =>
        /\ pc = "looped"
        /\ RLeq(RInt(TARGET_DURATION), trimmed_clip.looped)
        /\ REq(trimmed_clip.duration, RInt(TARGET_DURATION))


----------------------------------------------------------------------------
(* Claims on failures (specifications SpecTimeline and Spec).              *)

Terminated == pc \in {"done", "failed"}

FailedFetchIsNone ==
    \A k \in BOOLEAN, j \in BOOLEAN, groq \in Responses, hf \in Responses :
        ((k => groq.status # "ok") /\ (j => hf.status # "ok"))
            => fetch_ai_content(k, j, groq, hf) = None

\* C17: once get_content_for_sign has returned, each of the three values is
\* a text (never None); where the fetch came back None or "" (every
\* configured provider failed, or one answered with empty text) the value
\* is the cleaned fixed fallback of that section, and otherwise it is the
\* cleaned provider text; get_content_for_sign returns normally whatever
\* the providers did.
C17_FallbackForFailedFetch ==
    /\ FailedFetchIsNone
    /\ pc # "main" =>
          \A s \in Sections :
              /\ content[s] \in [len : Nat, lines : Nat]
              /\ Falsy(fetched[s]) =>
                    /\ \E sign \in Signs :
                          content[s] = fallback(s, sign).cleaned
                    /\ content[s].len > 0
              /\ ~Falsy(fetched[s]) => content[s] = fetched[s].cleaned

\* all three fetches returned None and the run goes on with the three
\* fallbacks
C17_Witness ==
    /\ pc = "date"
    /\ \A s \in Sections : fetched[s] = None
    /\ <<content.horoscope.len, content.wealth.len, content.health.len>>
          = <<130, 78, 93>>

----------------------------------------------------------------------------
(* Claim on repeated runs (specification SpecRuns).                        *)

----------------------------------------------------------------------------
(* Claim on the chunk starts (specification SpecChunks).                   *)

\* C21: the first chunk of a section starts at offset 0, every later chunk
\* starts at the sum of the durations of the chunks before it, and so each
\* chunk ends exactly where the next one starts: no gap, no overlap.
C21_ChunksContiguous ==
    Returned =>
        /\ REq(text_clips[1].start, RInt(0))
        /\ \A i \in DOMAIN text_clips :
              REq(text_clips[i].start,
                  RSum(Durations(SubSeq(text_clips, 1, i - 1))))
        /\ \A i \in 1..(Len(text_clips) - 1) :
              /\ REq(ClipEnd(text_clips[i]), text_clips[i + 1].start)
              /\ Disjoint(text_clips[i], text_clips[i + 1])

\* 19 lines in 45 seconds: the third chunk starts where the first two,
\* of 9 lines each, end
C21_Witness ==
    /\ Returned
    /\ text.lines = 2 * LINES_PER_CHUNK + 1
    /\ total_duration = AVAILABLE_TIME
    /\ Len(text_clips) = 3
    /\ REq(text_clips[3].start, Rat(2 * LINES_PER_CHUNK * AVAILABLE_TIME,
                                    2 * LINES_PER_CHUNK + 1))
    /\ REq(ClipEnd(text_clips[2]), text_clips[3].start)

----------------------------------------------------------------------------
(* Claim on the layout (specification SpecTimeline).                       *)

\* the body clips of a section, in timeline order
BodyClips(s) ==
    SelectSeq(all_clips, LAMBDA c : c.kind = "body" /\ c.section = s)

\* positions on the timeline of the clips of a block
Indices(s) == {i \in DOMAIN all_clips : all_clips[i].section = s}

Before(s, t) == \A i \in Indices(s), j \in Indices(t) : i < j

\* C22: on the composed timeline the title, its underline and the date start
\* at 0 and last horo_time + wealth_time + health_time; the horoscope
\* heading and chunks start at 0, the wealth ones at horo_time, the health
\* ones at horo_time + wealth_time, each chunk at its section's start plus
\* its own offset, whatever the chunk durations; the subscribe clip starts
\* at horo_time + wealth_time + health_time; and the blocks stand in this
\* order.
C22_LayoutOrder ==
    Composed =>
        /\ \A i \in Indices("title") :
              /\ REq(all_clips[i].start, RInt(0))
              /\ REq(all_clips[i].duration, RInt(SumOfTimes))
        /\ Indices("title") = 1..3
        /\ \A s \in Sections :
              /\ \A i \in Indices(s) :
                    all_clips[i].kind \in {"heading", "underline"} =>
                        /\ REq(all_clips[i].start, RInt(SectionStart(s)))
                        /\ REq(all_clips[i].duration, RInt(SectionTime(s)))
              /\ Len(BodyClips(s)) = Len(SectionChunks(s))
              /\ \A k \in DOMAIN SectionChunks(s) :
                    /\ REq(BodyClips(s)[k].start,
                           RAdd(RInt(SectionStart(s)),
                                SectionChunks(s)[k].start))
                    /\ BodyClips(s)[k].duration = SectionChunks(s)[k].duration
        /\ Before("title", "horoscope")
        /\ Before("horoscope", "wealth")
        /\ Before("wealth", "health")
        /\ Before("health", "subscribe")
        /\ \A i \in Indices("subscribe") :
              /\ i = Len(all_clips)
              /\ REq(all_clips[i].start, RInt(SumOfTimes))

\* a health text in two chunks: its second chunk starts after the start of
\* the health section, horo_time + wealth_time
C22_Witness ==
    /\ Composed
    /\ Len(BodyClips("health")) = 2
    /\ horo_time + wealth_time > 0
    /\ RLt(RInt(horo_time + wealth_time), BodyClips("health")[2].start)
    /\ Indices("subscribe") = {Len(all_clips)}

----------------------------------------------------------------------------
(* Claim on the run as a whole (specification Spec).                       *)

\* C23: a run fails only where the background video cannot be used or the
\* renderer fails: when an exception reaches main, either the background
\* had been looked up (and could not be opened) or the timeline had been
\* composed and handed to the renderer; no earlier step of create_short
\* raises.
C23_OnlyRendererOrBackgroundFails ==
    pc \in {"raised", "failed"} =>
        bg_video_path # "unset" \/ Composed

----------------------------------------------------------------------------
(* upload_youtube.py: main (lines 152-197) uploads the newest video of a   *)
(* sign and removes it afterwards.  Specification SpecUpload.              *)

UploadSigns == {"Aries", "Taurus"}

\* the files videos/youtube_shorts may hold: <sign>_*.mp4, told apart by
\* their creation time
VideoFiles ==
    {[sign |-> s, ctime |-> t] : s \in UploadSigns, t \in 1..MaxFiles}

\* lines 19-25: None without a video of the sign, else the newest one
get_latest_video(sign, dir) ==
    LET videos == {v \in dir : v.sign = sign} IN
    IF videos = {} THEN NoVideo
    ELSE CHOOSE v \in videos : \A w \in videos : w.ctime <= v.ctime

\* lines 30-32, 34, 132-138: None without the three credentials; else the
\* URL, or None when anything between lines 35 and 131 raises
upload_to_youtube(credentials, api) ==
    IF ~credentials THEN "None"
    ELSE IF api = "uploaded" THEN "url"
    ELSE "None"

\* the video removed whenever cleanup is enabled, uploaded or not
cleanup_regardless(url, cleanup) == cleanup

\* lines 181, 187: cleanup_video is called under `if youtube_url:` and
\* `if cleanup:`
cleanup_called(url, cleanup) == url # "None" /\ cleanup

InitUpload ==
    /\ pc = "upload_main"
    /\ shorts_dir \in SUBSET VideoFiles
    /\ upload_args \in
          [sign : UploadSigns, cleanup : BOOLEAN, credentials : BOOLEAN]
    /\ upload_video_path = NoVideo
    /\ youtube_url = "unset"
    /\ removed_videos = {}
    /\ exit_status = -1
    /\ ShortIdle /\ CleanupIdle /\ ShortsIdle /\ ProvidersIdle /\ EmailIdle

\* lines 167-172: the newest video of the sign, or exit status 1
upload_main_latest ==
    /\ pc = "upload_main"
    /\ upload_video_path' = get_latest_video(upload_args.sign, shorts_dir)
    /\ IF upload_video_path' = NoVideo
       THEN pc' = "exited" /\ exit_status' = 1
       ELSE pc' = "upload" /\ UNCHANGED exit_status
    /\ UNCHANGED <<shorts_dir, upload_args, youtube_url, removed_videos,
                   but_upload_vars>>

\* line 179: youtube_url = upload_to_youtube(video_path, args.sign, ...)
upload_main_upload ==
    /\ pc = "upload"
    /\ \E api \in {"uploaded", "raises"} :
          youtube_url' = upload_to_youtube(upload_args.credentials, api)
    /\ pc' = "uploaded"
    /\ UNCHANGED <<shorts_dir, upload_args, upload_video_path,
                   removed_videos, exit_status, but_upload_vars>>

\* lines 181-197, with cleanup_video (lines 141-149) whose os.remove
\* removes the file or raises and is caught
upload_main_report ==
    /\ pc = "uploaded"
    /\ IF cleanup_called(youtube_url, upload_args.cleanup)
       THEN \/ /\ shorts_dir' = shorts_dir \ {upload_video_path}
               /\ removed_videos' = removed_videos \cup {upload_video_path}
            \/ UNCHANGED <<shorts_dir, removed_videos>>
       ELSE UNCHANGED <<shorts_dir, removed_videos>>
    /\ exit_status' = IF youtube_url # "None" THEN 0 ELSE 1
    /\ pc' = "exited"
    /\ UNCHANGED <<upload_args, upload_video_path, youtube_url,
                   but_upload_vars>>

NextUpload == upload_main_latest \/ upload_main_upload \/ upload_main_report

SpecUpload == InitUpload /\ [][NextUpload]_vars

\* C24: a video is removed only after upload_to_youtube returned a URL and
\* only when cleanup is enabled, and it is the uploaded one; the script
\* exits 0 only after a successful upload; when no URL was returned (the
\* upload failed, raised or was skipped for missing credentials, or there
\* was no video) nothing is removed and the exit status is 1.
C24_RemovedOnlyAfterUpload ==
    /\ removed_videos # {} =>
          /\ youtube_url = "url"
          /\ upload_args.cleanup
          /\ removed_videos = {upload_video_path}
          /\ upload_video_path \notin shorts_dir
    /\ exit_status = 0 => youtube_url = "url"
    /\ (pc = "exited" /\ youtube_url # "url") =>
          exit_status = 1 /\ removed_videos = {}

\* an uploaded video removed, an older one of the same sign kept
C24_Witness ==
    /\ pc = "exited"
    /\ exit_status = 0
    /\ removed_videos = {upload_video_path}
    /\ \E v \in shorts_dir : v.sign = upload_args.sign

----------------------------------------------------------------------------
(* cleanup.py: main (lines 224-296) and the three cleanup functions.       *)
(* Specification SpecCleanup.                                              *)

YOUTUBE_OLDER_DEFAULT == 24
INSTA_OLDER_DEFAULT == 168

\* seconds since the modification of the i-th file of a directory whose
\* default threshold is `hours`: one second short of it, exactly it, then
\* whole hours past it
AgeSeconds(hours, i) ==
    IF i = 1 THEN 3600 * hours - 1 ELSE 3600 * (hours + i - 2)

File(d, i, age, kind) == [dir |-> d, name |-> i, age |-> age, kind |-> kind]

\* the *.mp4 files of videos/youtube_shorts and videos/instagram_reels, and
\* the entries of temp/: a plain file and a directory
FilesOf(d) ==
    IF d = "youtube" THEN
        {File(d, i, AgeSeconds(YOUTUBE_OLDER_DEFAULT, i), "file") :
            i \in 1..MaxFiles}
    ELSE IF d = "instagram" THEN
        {File(d, i, AgeSeconds(INSTA_OLDER_DEFAULT, i), "file") :
            i \in 1..MaxFiles}
    ELSE {File(d, 1, 0, "file"), File(d, 2, 0, "dir")}

DirStates(d) ==
    {NoDir} \cup {[exists |-> TRUE, files |-> fs] : fs \in SUBSET FilesOf(d)}

\* lines 24-28: (current_time - file_time) / 3600
get_file_age_hours(f) == Rat(f.age, 3600)

\* a video kept until it is strictly older than the threshold
older_strictly(f, older_than_hours) ==
    RLt(RInt(older_than_hours), get_file_age_hours(f))

\* lines 55, 104: age_hours >= older_than_hours
old_enough(f, older_than_hours) ==
    RLeq(RInt(older_than_hours), get_file_age_hours(f))

\* removal whatever dry_run says
removes_always(dry_run) == TRUE

\* lines 60, 109, 156: if not dry_run
removes(dry_run) == ~dry_run

\* lines 31-77 and, the same code on INSTA_REELS_DIR, lines 80-126: the
\* directory left behind, the paths handed to os.remove and the count
\* returned, when os.remove raises for the files of `failing`
cleanup_videos(d, older_than_hours, dry_run, failing) ==
    IF ~d.exists \/ d.files = {} THEN
        [dir |-> d, attempted |-> {}, deleted_count |-> 0]
    ELSE
        LET tried == IF removes(dry_run)
                     THEN {f \in d.files : old_enough(f, older_than_hours)}
                     ELSE {}
            gone == tried \ failing
        IN  [dir |-> [d EXCEPT !.files = d.files \ gone],
             attempted |-> tried,
             deleted_count |-> Cardinality(gone)]

\* lines 129-174: every entry of temp/, files by os.remove and directories
\* by shutil.rmtree (a directory is taken as removed whole or not at all)
cleanup_temp(d, dry_run, failing) ==
    IF ~d.exists \/ d.files = {} THEN
        [dir |-> d, attempted |-> {}, deleted_count |-> 0]
    ELSE
        LET tried == IF removes(dry_run) THEN d.files ELSE {}
            gone == tried \ failing
        IN  [dir |-> [d EXCEPT !.files = d.files \ gone],
             attempted |-> tried,
             deleted_count |-> Cardinality(gone)]

CleanupCommands == {"youtube", "instagram", "temp", "all"}

InitCleanup ==
    /\ pc = "cleanup_main"
    /\ disk \in [youtube : DirStates("youtube"),
                 instagram : DirStates("instagram"),
                 temp : DirStates("temp")]
    /\ disk_before = disk
    /\ cleanup_args \in
          [command : CleanupCommands, dry_run : BOOLEAN,
           youtube_older :
               {YOUTUBE_OLDER_DEFAULT, YOUTUBE_OLDER_DEFAULT + 1},
           insta_older : {INSTA_OLDER_DEFAULT, INSTA_OLDER_DEFAULT + 1}]
    /\ deleted_count = NotCalled
    /\ attempted = {}
    /\ exit_status = -1
    /\ ShortIdle /\ UploadIdle /\ ShortsIdle /\ ProvidersIdle /\ EmailIdle

\* lines 266-287: the command picks the function, `all` the first of three
cleanup_main ==
    /\ pc = "cleanup_main"
    /\ pc' = IF cleanup_args.command = "all" THEN "youtube"
             ELSE cleanup_args.command
    /\ UNCHANGED <<exit_status, short_vars, script_vars>>

\* lines 279, 288: cleanup_youtube_shorts(older_than, args.dry_run)
cleanup_youtube_shorts ==
    /\ pc = "youtube"
    /\ \E failing \in SUBSET disk.youtube.files :
          LET r == cleanup_videos(disk.youtube, cleanup_args.youtube_older,
                                  cleanup_args.dry_run, failing)
          IN  /\ disk' = [disk EXCEPT !.youtube = r.dir]
              /\ attempted' = attempted \cup r.attempted
              /\ deleted_count' =
                    [deleted_count EXCEPT !.youtube = r.deleted_count]
    /\ pc' = IF cleanup_args.command = "all" THEN "instagram" ELSE "done"
    /\ UNCHANGED <<disk_before, cleanup_args, exit_status,
                   but_cleanup_vars>>

\* lines 282, 290: cleanup_instagram_reels(older_than, args.dry_run)
cleanup_instagram_reels ==
    /\ pc = "instagram"
    /\ \E failing \in SUBSET disk.instagram.files :
          LET r == cleanup_videos(disk.instagram, cleanup_args.insta_older,
                                  cleanup_args.dry_run, failing)
          IN  /\ disk' = [disk EXCEPT !.instagram = r.dir]
              /\ attempted' = attempted \cup r.attempted
              /\ deleted_count' =
                    [deleted_count EXCEPT !.instagram = r.deleted_count]
    /\ pc' = IF cleanup_args.command = "all" THEN "temp" ELSE "done"
    /\ UNCHANGED <<disk_before, cleanup_args, exit_status,
                   but_cleanup_vars>>

\* lines 285, 292: cleanup_temp_files(args.dry_run)
cleanup_temp_files ==
    /\ pc = "temp"
    /\ \E failing \in SUBSET disk.temp.files :
          LET r == cleanup_temp(disk.temp, cleanup_args.dry_run, failing)
          IN  /\ disk' = [disk EXCEPT !.temp = r.dir]
              /\ attempted' = attempted \cup r.attempted
              /\ deleted_count' =
                    [deleted_count EXCEPT !.temp = r.deleted_count]
    /\ pc' = "done"
    /\ UNCHANGED <<disk_before, cleanup_args, exit_status,
                   but_cleanup_vars>>

NextCleanup ==
    \/ cleanup_main
    \/ cleanup_youtube_shorts
    \/ cleanup_instagram_reels
    \/ cleanup_temp_files

SpecCleanup == InitCleanup /\ [][NextCleanup]_vars

----------------------------------------------------------------------------
(* Claims on cleanup.py (specification SpecCleanup).                       *)

\* what has gone from directory d since the script started
Removed(d) == disk_before[d].files \ disk[d].files

\* the threshold the command line gives for the videos of d
OlderThan(d) ==
    IF d = "youtube" THEN cleanup_args.youtube_older
    ELSE cleanup_args.insta_older

\* the videos of d that were at least OlderThan(d) hours old at the start
Aged(d) == {f \in disk_before[d].files : f.age >= 3600 * OlderThan(d)}

\* C25: with dry_run set, no file or directory is removed, by any of the
\* three functions or by `all`: the three directories stay as they were
\* and nothing is handed to os.remove or shutil.rmtree.
C25_DryRunRemovesNothing ==
    cleanup_args.dry_run => disk = disk_before /\ attempted = {}

\* a dry run of `all` done over aged videos and a filled temp/
C25_Witness ==
    /\ pc = "done"
    /\ cleanup_args.dry_run
    /\ cleanup_args.command = "all"
    /\ Aged("youtube") # {} /\ Aged("instagram") # {}
    /\ Cardinality(disk.temp.files) = 2

\* C26: in a dry run the count a function reports and returns is the
\* number of files a run without dry_run would delete (for the videos,
\* those at least older_than hours old; for temp/, every entry).
C26_DryRunCountsDeletions ==
    cleanup_args.dry_run =>
        /\ \A d \in {"youtube", "instagram"} :
              deleted_count[d] >= 0 =>
                  deleted_count[d] = Cardinality(Aged(d))
        /\ deleted_count.temp >= 0 =>
              deleted_count.temp = Cardinality(disk_before.temp.files)

----------------------------------------------------------------------------
(* main.py: create_youtube_shorts (lines 599-718), the duration of one     *)
(* short and the looping of its background video or music.  Specification  *)
(* SpecShorts.                                                             *)

\* line 632: the overlay text has seven words around the three texts
OVERLAY_WORDS == 7
MIN_SHORT_DURATION == 20
MAX_SHORT_DURATION == 58

RMin(a, b) == IF RLeq(a, b) THEN a ELSE b

\* the duration without its upper limit
duration_uncapped(words) == RMax(RInt(MIN_SHORT_DURATION), Rat(2 * words, 5))

\* line 636: min(max(20, words / 2.5), 58)
duration_of(words) ==
    RMin(RMax(RInt(MIN_SHORT_DURATION), Rat(2 * words, 5)),
         RInt(MAX_SHORT_DURATION))

\* lines 646, 686: int(duration / clip.duration) + 1.  For a clip of a
\* multiple of half a second the quotient is an integer, and then
\* words / 2.5 is a whole number and exact, or it lies at least 1/610 from
\* one: the double's integer part is the exact one.
loops_needed_of(duration, clip_duration) ==
    (duration.num * clip_duration.den)
        \div (duration.den * clip_duration.num) + 1

\* lines 647, 687: concatenate_videoclips / concatenate_audioclips of n
\* copies
concatenate(clip_duration, n) == Rat(n * clip_duration.num, clip_duration.den)

\* lines 649, 689: clip.subclip(0, duration)
subclip_to(material, duration) == [looped |-> material, duration |-> duration]

\* the background video, and the music if its file exists (line 679), of
\* half a second to MaxSourceSeconds seconds
MainSources ==
    {[file |-> f, exists |-> TRUE, duration |-> Rat(k, 2)] :
        f \in {"background_video", "background_music"},
        k \in 1..(2 * MaxSourceSeconds)}
    \cup {[file |-> "background_music", exists |-> FALSE,
           duration |-> RInt(0)]}

InitShorts ==
    /\ pc = "shorts"
    /\ main_words \in OVERLAY_WORDS..MaxWords
    /\ media_source \in MainSources
    /\ short_duration = RInt(0)
    /\ loops_needed = 0
    /\ media_clip = NoClip
    /\ exit_status = -1
    /\ ShortIdle /\ UploadIdle /\ CleanupIdle /\ ProvidersIdle /\ EmailIdle

\* lines 635-636
create_youtube_shorts_duration ==
    /\ pc = "shorts"
    /\ short_duration' = duration_of(main_words)
    /\ pc' = "media"
    /\ UNCHANGED <<main_words, media_source, loops_needed, media_clip,
                   exit_status, provider_vars, but_main_vars>>

\* what lines 644-649 and 685-689 make of a clip
looped_and_trimmed(clip_duration, duration) ==
    IF RLt(clip_duration, duration) THEN
        LET n == loops_needed_of(duration, clip_duration) IN
        [loops_needed |-> n,
         clip |-> subclip_to(concatenate(clip_duration, n), duration)]
    ELSE [loops_needed |-> 0, clip |-> subclip_to(clip_duration, duration)]

\* lines 641-649: the background video
create_youtube_shorts_background ==
    /\ pc = "media"
    /\ media_source.file = "background_video"
    /\ LET r == looped_and_trimmed(media_source.duration, short_duration)
       IN  loops_needed' = r.loops_needed /\ media_clip' = r.clip
    /\ pc' = "prepared"
    /\ UNCHANGED <<main_words, short_duration, media_source, exit_status,
                   provider_vars, but_main_vars>>

\* lines 679-692: the music, if its file exists
create_youtube_shorts_music ==
    /\ pc = "media"
    /\ media_source.file = "background_music"
    /\ IF media_source.exists THEN
           /\ LET r == looped_and_trimmed(media_source.duration,
                                          short_duration)
              IN  loops_needed' = r.loops_needed /\ media_clip' = r.clip
           /\ pc' = "prepared"
       ELSE
           /\ pc' = "no_music"
           /\ UNCHANGED <<loops_needed, media_clip>>
    /\ UNCHANGED <<main_words, short_duration, media_source, exit_status,
                   provider_vars, but_main_vars>>

NextShorts ==
    \/ create_youtube_shorts_duration
    \/ create_youtube_shorts_background
    \/ create_youtube_shorts_music

SpecShorts == InitShorts /\ [][NextShorts]_vars

\* C28: whatever the number of words, the duration of the short is
\* words / 2.5 held between 20 and 58 seconds, so below 59; the background
\* video and the music are cut to exactly this duration, out of material
\* that lasts at least as long.
C28_DurationClampedAndMatched ==
    /\ pc # "shorts" =>
          /\ REq(short_duration,
                 IF 2 * main_words <= 5 * MIN_SHORT_DURATION
                 THEN RInt(MIN_SHORT_DURATION)
                 ELSE IF 2 * main_words >= 5 * MAX_SHORT_DURATION
                 THEN RInt(MAX_SHORT_DURATION)
                 ELSE Rat(2 * main_words, 5))
          /\ RLeq(RInt(20), short_duration)
          /\ RLeq(short_duration, RInt(58))
          /\ RLt(short_duration, RInt(59))
    /\ pc = "prepared" =>
          /\ media_clip.duration = short_duration
          /\ RLeq(short_duration, media_clip.looped)

\* 51 words give 20.4 seconds; music of 8 seconds is laid three times and
\* cut
C28_Witness ==
    /\ pc = "prepared"
    /\ media_source.file = "background_music"
    /\ short_duration = Rat(102, 5)
    /\ media_source.duration = Rat(16, 2)
    /\ loops_needed = 3
    /\ media_clip = [looped |-> Rat(48, 2), duration |-> Rat(102, 5)]

----------------------------------------------------------------------------
(* main.py: get_free_ai_content (lines 38-136) and the use                 *)
(* generate_daily_content makes of it (lines 301-348).  Specification      *)
(* SpecProviders.                                                          *)

\* generated texts: empty, blank, and text with and without blanks around
Generated == {"", " ", "text", " text "}

\* str.strip()
strip(t) == IF t \in {"", " "} THEN "" ELSE "text"

\* the truth value of a str
Truthy(t) == t # ""

ReturnedStr(t) == [kind |-> "str", text |-> t]
ReturnedNone == [kind |-> "None", text |-> ""]

Answer(status, form, t) == [status |-> status, form |-> form, text |-> t]

\* what requests.post gives for a HuggingFace URL: an exception (timeout
\* included), a status other than 200, or 200 with a body: a list whose
\* first element holds generated_text, an empty list, a dict with
\* generated_text (a str or null) or without, or no JSON at all
HuggingFaceAnswers ==
    {Answer(s, "none", "") : s \in {"exception", "non200"}}
    \cup {Answer("ok", f, "") :
            f \in {"empty_list", "dict_without", "dict_null", "malformed"}}
    \cup {Answer("ok", f, t) : f \in {"list", "dict"}, t \in Generated}

\* the same for Groq: 200 with choices[0].message.content, or with
\* something else
GroqAnswers ==
    {Answer(s, "none", "") : s \in {"exception", "non200"}}
    \cup {Answer("ok", "malformed", "")}
    \cup {Answer("ok", "chat", t) : t \in Generated}

NotReturned == [returned |-> FALSE, value |-> ""]

\* lines 70-77 and 92-99 inside their try: what the function returns for
\* an answer, if it returns
read_huggingface(answer) ==
    IF answer.status # "ok" THEN NotReturned
    ELSE IF answer.form = "list" THEN
        IF Truthy(answer.text)
        THEN [returned |-> TRUE, value |-> strip(answer.text)]
        ELSE NotReturned
    ELSE IF answer.form = "dict"
    THEN [returned |-> TRUE, value |-> strip(answer.text)]
    ELSE NotReturned

\* lines 129-130 inside their try
read_groq(answer) ==
    IF answer.status = "ok" /\ answer.form = "chat"
    THEN [returned |-> TRUE, value |-> strip(answer.text)]
    ELSE NotReturned

InitProviders ==
    /\ pc = "deepseek"
    /\ api_keys \in [huggingface : BOOLEAN, groq : BOOLEAN]
    /\ provider_answers \in
          [deepseek : HuggingFaceAnswers, openai : HuggingFaceAnswers,
           groq : GroqAnswers]
    /\ contacted = <<>>
    /\ ai_result = Unset
    /\ daily_horoscope = "unset"
    /\ exit_status = -1
    /\ ShortIdle /\ UploadIdle /\ CleanupIdle /\ ShortsIdle /\ EmailIdle

\* lines 45-80: DeepSeek, under `if HUGGINGFACE_API_KEY:`
get_free_ai_content_deepseek ==
    /\ pc = "deepseek"
    /\ IF api_keys.huggingface THEN
           /\ contacted' = Append(contacted, "deepseek")
           /\ LET r == read_huggingface(provider_answers.deepseek) IN
              IF r.returned
              THEN ai_result' = ReturnedStr(r.value) /\ pc' = "returned"
              ELSE pc' = "openai" /\ UNCHANGED ai_result
       ELSE pc' = "groq" /\ UNCHANGED <<contacted, ai_result>>
    /\ UNCHANGED <<api_keys, provider_answers, daily_horoscope, exit_status,
                   shorts_vars, but_main_vars>>

\* lines 82-101: the OpenAI models, under the same `if`
get_free_ai_content_openai ==
    /\ pc = "openai"
    /\ contacted' = Append(contacted, "openai")
    /\ LET r == read_huggingface(provider_answers.openai) IN
       IF r.returned
       THEN ai_result' = ReturnedStr(r.value) /\ pc' = "returned"
       ELSE pc' = "groq" /\ UNCHANGED ai_result
    /\ UNCHANGED <<api_keys, provider_answers, daily_horoscope, exit_status,
                   shorts_vars, but_main_vars>>

\* lines 103-136: Groq, under `if GROQ_API_KEY:`, then return None
get_free_ai_content_groq ==
    /\ pc = "groq"
    /\ IF api_keys.groq THEN
           /\ contacted' = Append(contacted, "groq")
           /\ LET r == read_groq(provider_answers.groq) IN
              ai_result' = IF r.returned THEN ReturnedStr(r.value)
                           ELSE ReturnedNone
       ELSE ai_result' = ReturnedNone /\ UNCHANGED contacted
    /\ pc' = "returned"
    /\ UNCHANGED <<api_keys, provider_answers, daily_horoscope, exit_status,
                   shorts_vars, but_main_vars>>

\* lines 306-315: `if horoscope_raw:` the cleaned answer, else the fallback
generate_daily_content ==
    /\ pc = "returned"
    /\ daily_horoscope' =
          IF ai_result.kind = "str" /\ Truthy(ai_result.text)
          THEN "clean_ai_response" ELSE "FALLBACK_HOROSCOPES"
    /\ pc' = "content"
    /\ UNCHANGED <<api_keys, provider_answers, contacted, ai_result,
                   exit_status, shorts_vars, but_main_vars>>

NextProviders ==
    \/ get_free_ai_content_deepseek
    \/ get_free_ai_content_openai
    \/ get_free_ai_content_groq
    \/ generate_daily_content

SpecProviders == InitProviders /\ [][NextProviders]_vars

----------------------------------------------------------------------------
(* Claim on get_free_ai_content (specification SpecProviders).             *)

ProviderOrder == <<"deepseek", "openai", "groq">>

KeySet(p) == IF p = "groq" THEN api_keys.groq ELSE api_keys.huggingface

\* the providers whose key is set, in the fixed order
Configured == SelectSeq(ProviderOrder, KeySet)

\* provider p answers 200 with a text that is not empty once stripped
NonEmptyAnswer(p) ==
    /\ provider_answers[p].status = "ok"
    /\ provider_answers[p].form \in {"list", "dict", "chat"}
    /\ strip(provider_answers[p].text) # ""

\* C29: the providers are contacted in the order DeepSeek, OpenAI, Groq,
\* those without a key left out; the function returns the answer of the
\* first configured provider that answers with a non-empty text, having
\* contacted no later one, and returns None only when every configured
\* provider was contacted and none answered so; after None,
\* generate_daily_content takes the fallback horoscope.
C29_FirstNonEmptyAnswerInOrder ==
    /\ \E n \in 0..Len(Configured) : contacted = SubSeq(Configured, 1, n)
    /\ pc \in {"returned", "content"} =>
          LET good == {i \in 1..Len(Configured) :
                          NonEmptyAnswer(Configured[i])}
          IN  IF good = {} THEN
                  ai_result = ReturnedNone /\ contacted = Configured
              ELSE
                  LET first == CHOOSE i \in good : \A j \in good : i <= j
                  IN  /\ contacted = SubSeq(Configured, 1, first)
                      /\ ai_result =
                            ReturnedStr(strip(
                                provider_answers[Configured[first]].text))
    /\ (pc = "content" /\ ai_result = ReturnedNone) =>
          daily_horoscope = "FALLBACK_HOROSCOPES"

----------------------------------------------------------------------------
(* send_email.py: send_email_gmail (lines 77-224) and the exit status      *)
(* (lines 245-248).  Specification SpecEmail.                              *)

\* recipient 0 is PRIMARY_EMAIL (line 24), 1.. are the addresses of
\* SECONDARY_EMAILS (line 25)
PRIMARY_EMAIL == 0

\* lines 27-74: True when the three credentials are set and nothing from
\* the token refresh to messages().send(...).execute() raises
send_email_gmail_api(credentials, outcome) ==
    credentials /\ outcome = "sent"

InitEmail ==
    /\ pc = "email"
    /\ email_env \in
          [status : {"success", "failure"}, credentials : BOOLEAN,
           secondary : 0..MaxSecondary]
    /\ gmail_outcome \in [0..email_env.secondary -> {"sent", "raises"}]
    /\ delivered = {}
    /\ email_success = "unset"
    /\ exit_status = -1
    /\ ShortIdle /\ UploadIdle /\ CleanupIdle /\ ShortsIdle /\ ProvidersIdle

\* lines 80-209: the report is built and sent to PRIMARY_EMAIL; what
\* send_email_gmail_api returns is dropped
send_email_gmail_primary ==
    /\ pc = "email"
    /\ delivered' =
          IF send_email_gmail_api(email_env.credentials,
                                  gmail_outcome[PRIMARY_EMAIL])
          THEN delivered \cup {PRIMARY_EMAIL} ELSE delivered
    /\ pc' = "secondary"
    /\ UNCHANGED <<email_env, gmail_outcome, email_success, exit_status,
                   but_email_vars>>

\* lines 212-218: the same for every secondary address, then return True
send_email_gmail_secondary ==
    /\ pc = "secondary"
    /\ delivered' =
          delivered \cup
          {e \in 1..email_env.secondary :
              send_email_gmail_api(email_env.credentials, gmail_outcome[e])}
    /\ email_success' = "True"
    /\ pc' = "sent"
    /\ UNCHANGED <<email_env, gmail_outcome, exit_status, but_email_vars>>

\* lines 245-248: sys.exit(0 if success else 1)
send_email_exit ==
    /\ pc = "sent"
    /\ exit_status' = IF email_success = "True" THEN 0 ELSE 1
    /\ pc' = "exited"
    /\ UNCHANGED <<email_env, gmail_outcome, delivered, email_success,
                   but_email_vars>>

NextEmail ==
    \/ send_email_gmail_primary
    \/ send_email_gmail_secondary
    \/ send_email_exit

SpecEmail == InitEmail /\ [][NextEmail]_vars

\* C30: send_email_gmail returns True, and the script exits with status
\* 0, only if the report was delivered to the primary recipient; when the
\* credentials are missing or the Gmail API fails for the primary
\* recipient, the result is False and the exit status 1.
C30_TrueOnlyIfDelivered ==
    /\ email_success = "True" => PRIMARY_EMAIL \in delivered
    /\ exit_status = 0 => PRIMARY_EMAIL \in delivered
    /\ (pc = "exited" /\ PRIMARY_EMAIL \notin delivered) =>
          email_success = "False" /\ exit_status = 1

====
